---- MODULE Spec2Model ----
(***************************************************************************)
(* Model of the Kuzu MCP server (index.js): the CallTool request handler,  *)
(* the query executor, schema reflection and the health probe, running     *)
(* against an abstract engine connection whose calls may fail at query     *)
(* submission or while draining the cursor.                                *)
(***************************************************************************)
EXTENDS Integers, Sequences, FiniteSets, TLC

VARIABLES running, isReadOnly, catalog, last, phase, exit, handles, seeding,
          pending, emitted, reflected

vars == <<running, isReadOnly, catalog, last, phase, exit, handles, seeding,
          pending, emitted, reflected>>

(***************************************************************************)
(* Bounds of the model.                                                    *)
(***************************************************************************)
MaxTables == 2
MaxFaults == 1
MaxRequests == 2

(***************************************************************************)
(* JavaScript values.  An absent (undefined) value is the empty tuple, a   *)
(* present one a 1-tuple.  A string is the sequence of its characters.     *)
(***************************************************************************)
None == <<>>
Some(x) == <<x>>
IsSome(o) == Len(o) = 1
Get(o) == o[1]

Whitespace == {" ", "\n"}

RECURSIVE TrimStart(_)
TrimStart(s) ==
  IF s # <<>> /\ Head(s) \in Whitespace THEN TrimStart(Tail(s)) ELSE s

RECURSIVE TrimEnd(_)
TrimEnd(s) ==
  IF s # <<>> /\ s[Len(s)] \in Whitespace
  THEN TrimEnd(SubSeq(s, 1, Len(s) - 1))
  ELSE s

\* a trim that leaves the string as it is
TrimNothing(s) == s

\* String.prototype.trim
Trim(s) == TrimEnd(TrimStart(s))

Str(s) == [t |-> "string", str |-> s]
Num(n) == [t |-> "number", num |-> n]
Bool(b) == [t |-> "boolean", bool |-> b]
Null == [t |-> "null"]
\* a BigInt: sign and magnitude in base-1000 limbs, most significant first
Big(neg, limbs) == [t |-> "bigint", neg |-> neg, limbs |-> limbs]

\* JavaScript truthiness of a value
Truthy(v) ==
  CASE v.t = "string" -> v.str # <<>>
    [] v.t = "number" -> v.num # 0
    [] v.t = "boolean" -> v.bool
    [] v.t = "null" -> FALSE
    [] v.t = "bigint" -> v.limbs # <<0>>

\* !x for an optional value
Falsy(o) == ~IsSome(o) \/ ~Truthy(Get(o))

(***************************************************************************)
(* Outcome of a call: a returned value or a thrown error with its message  *)
(* (a sequence of message parts).                                          *)
(***************************************************************************)
Return(v) == [ok |-> TRUE, value |-> v]
Throw(msg) == [ok |-> FALSE, message |-> msg]

\* type words in another case than the engine's
TableTypesLowerCase == [NODE |-> "node", REL |-> "rel"]

TABLE_TYPES == [NODE |-> "NODE", REL |-> "REL"]

(***************************************************************************)
(* Table names and their collation.  localeCompare compares the base       *)
(* letters first and breaks ties by case, lower case first.                *)
(***************************************************************************)
TableNames == {"a", "B", "ab", "Ab", "c"}

\* the characters of a table name
NameChars(n) ==
  CASE n = "a" -> <<"a">>
    [] n = "B" -> <<"B">>
    [] n = "ab" -> <<"a", "b">>
    [] n = "Ab" -> <<"A", "b">>
    [] n = "c" -> <<"c">>

PrimaryWeight(ch) ==
  CASE ch \in {"a", "A"} -> 1
    [] ch \in {"b", "B"} -> 2
    [] ch \in {"c", "C"} -> 3

TertiaryWeight(ch) == IF ch \in {"A", "B", "C"} THEN 1 ELSE 0

RECURSIVE CompareWeights(_, _)
CompareWeights(x, y) ==
  IF x = <<>> /\ y = <<>> THEN 0
  ELSE IF x = <<>> THEN -1
  ELSE IF y = <<>> THEN 1
  ELSE IF Head(x) < Head(y) THEN -1
  ELSE IF Head(x) > Head(y) THEN 1
  ELSE CompareWeights(Tail(x), Tail(y))

\* String.prototype.localeCompare on table names
localeCompare(x, y) ==
  LET cx == NameChars(x)
      cy == NameChars(y)
      p == CompareWeights([i \in DOMAIN cx |-> PrimaryWeight(cx[i])],
                          [i \in DOMAIN cy |-> PrimaryWeight(cy[i])])
  IN IF p # 0 THEN p
     ELSE CompareWeights([i \in DOMAIN cx |-> TertiaryWeight(cx[i])],
                         [i \in DOMAIN cy |-> TertiaryWeight(cy[i])])

(***************************************************************************)
(* The engine behind the connection handle.  The catalog is the sequence   *)
(* of table names in the order show_tables() lists them; the metadata of   *)
(* a table is fixed by its name.                                           *)
(***************************************************************************)
Modes == {"ok", "query", "drain"}

TableType(n) ==
  CASE n \in {"a", "B"} -> "NODE"
    [] n \in {"ab", "Ab"} -> "REL"
    [] OTHER -> "FOREIGN"

Property(name, type, pk) ==
  ("name" :> name) @@ ("type" :> type) @@ ("primary key" :> pk)

\* rows of CALL TABLE_INFO(n)
TableInfoRows(n) ==
  CASE n = "a" -> << Property("id", "INT64", TRUE),
                     Property("name", "STRING", FALSE) >>
    [] n = "B" -> << Property("title", "STRING", FALSE),
                     Property("code", "STRING", TRUE) >>
    [] n = "ab" -> << Property("since", "INT64", FALSE) >>
    [] n = "Ab" -> << ("name" :> "weight") @@ ("type" :> "DOUBLE") >>
    [] n = "c" -> << Property("k", "STRING", TRUE) >>

Connection(src, dst) ==
  ("source table name" :> src) @@ ("destination table name" :> dst)

\* rows of CALL SHOW_CONNECTION(n)
ShowConnectionRows(n) ==
  CASE n = "ab" -> << Connection("a", "B"), Connection("a", "a") >>
    [] n = "Ab" -> << Connection("B", "a") >>
    [] OTHER -> << >>

\* rows of CALL show_tables()
ShowTablesRows(cat) ==
  [i \in DOMAIN cat |-> [name |-> cat[i], type |-> TableType(cat[i])]]

MaxInt64 == Big(FALSE, <<9, 223, 372, 36, 854, 775, 807>>)
MinInt64 == Big(TRUE, <<9, 223, 372, 36, 854, 775, 808>>)

\* result rows a MATCH statement may produce
Row1 == [id |-> Big(FALSE, <<9, 7, 199, 254, 740, 993>>),
         name |-> Str(<<"A", "l">>), age |-> Num(30)]
Row2 == [id |-> Big(FALSE, <<0>>), name |-> Null, age |-> Bool(TRUE)]
Row3 == [id |-> MinInt64, name |-> Str(<<"1", "2">>), age |-> Big(TRUE, <<1, 20>>)]
Row4 == [id |-> MaxInt64, name |-> Str(<<>>), age |-> Num(-5)]

RowSets == { <<>>, <<Row1>>, <<Row2, Row1>>, <<Row3, Row4>> }

InsertAt(s, pos, x) == SubSeq(s, 1, pos - 1) \o <<x>> \o SubSeq(s, pos, Len(s))

Remove(s, x) == SelectSeq(s, LAMBDA y : y # x)

InCatalog(cat, n) == \E i \in DOMAIN cat : cat[i] = n

\* What the engine does with a statement: reject it, or execute it with an
\* effect on the catalog and a result set
Execute(stmt, cat, ro, rows, pos) ==
  IF stmt = <<"MATCH">> THEN [ok |-> TRUE, catalog |-> cat, rows |-> rows]
  ELSE IF Len(stmt) = 2 /\ stmt[1] = "CREATE" /\ stmt[2] \in TableNames THEN
    IF ro THEN [ok |-> FALSE, message |-> <<"Cannot execute write operations in a read-only database!">>]
    ELSE IF InCatalog(cat, stmt[2]) THEN [ok |-> FALSE, message |-> <<"Binder exception: ", stmt[2], " already exists in catalog.">>]
    ELSE [ok |-> TRUE, catalog |-> InsertAt(cat, pos, stmt[2]), rows |-> <<>>]
  ELSE IF Len(stmt) = 2 /\ stmt[1] = "DROP" /\ stmt[2] \in TableNames THEN
    IF ro THEN [ok |-> FALSE, message |-> <<"Cannot execute write operations in a read-only database!">>]
    ELSE IF ~InCatalog(cat, stmt[2]) THEN [ok |-> FALSE, message |-> <<"Binder exception: Table ", stmt[2], " does not exist.">>]
    ELSE [ok |-> TRUE, catalog |-> Remove(cat, stmt[2]), rows |-> <<>>]
  ELSE [ok |-> FALSE, message |-> <<"Parser exception: Invalid input">>]

\* connection.query(stmt) followed by getAll() on the cursor it returns.
\* status "queryFail": query() rejects, no cursor exists;
\* status "drainFail": a cursor was returned and getAll() rejects;
\* status "ok": a cursor was returned and getAll() gave the rows.
EngineCall(exec, mode, cat) ==
  IF mode = "query"
  THEN [status |-> "queryFail", message |-> <<"Connection exception">>, catalog |-> cat]
  ELSE IF ~exec.ok
  THEN [status |-> "queryFail", message |-> exec.message, catalog |-> cat]
  ELSE IF mode = "drain"
  THEN [status |-> "drainFail", message |-> <<"Runtime exception">>, catalog |-> exec.catalog]
  ELSE [status |-> "ok", rows |-> exec.rows, catalog |-> exec.catalog]

\* cursors obtained from the engine by one call
Opened(call) == IF call.status = "queryFail" THEN 0 ELSE 1

(***************************************************************************)
(* Serialization.                                                          *)
(***************************************************************************)
DigitChars == <<"0", "1", "2", "3", "4", "5", "6", "7", "8", "9">>

Digit(d) == DigitChars[d + 1]

\* the digits of a limb, without and with leading zeros
LimbDigits(l) ==
  IF l >= 100 THEN <<Digit(l \div 100), Digit((l \div 10) % 10), Digit(l % 10)>>
  ELSE IF l >= 10 THEN <<Digit(l \div 10), Digit(l % 10)>>
  ELSE <<Digit(l)>>

PaddedLimbDigits(l) == <<Digit(l \div 100), Digit((l \div 10) % 10), Digit(l % 10)>>

RECURSIVE PaddedDigits(_)
PaddedDigits(limbs) ==
  IF limbs = <<>> THEN <<>>
  ELSE PaddedLimbDigits(Head(limbs)) \o PaddedDigits(Tail(limbs))

\* BigInt.prototype.toString: the decimal digits, "-" first when negative
BigIntToString(b) ==
  (IF b.neg THEN <<"-">> ELSE <<>>)
    \o LimbDigits(Head(b.limbs)) \o PaddedDigits(Tail(b.limbs))

\* a replacer that returns every value as it is
bigIntReplacerIdentity(key, value) == value

bigIntReplacer(key, value) ==
  IF value.t = "bigint" THEN Str(BigIntToString(value)) ELSE value

\* a serialization that keeps only the first row of the result
StringifyRowsFirstOnly(rows) ==
  Return([i \in (DOMAIN rows) \cap {1} |->
            [k \in DOMAIN rows[i] |-> bigIntReplacer(k, rows[i][k])]])

\* JSON.stringify(rows, bigIntReplacer, 2): the replacer is applied to
\* every scalar; a BigInt left in the value makes JSON.stringify throw
StringifyRows(rows) ==
  LET replaced == [i \in DOMAIN rows |->
                     [k \in DOMAIN rows[i] |-> bigIntReplacer(k, rows[i][k])]]
  IN IF \E i \in DOMAIN replaced : \E k \in DOMAIN replaced[i] :
          replaced[i][k].t = "bigint"
     THEN Throw(<<"Do not know how to serialize a BigInt">>)
     ELSE Return(replaced)

\* JSON.stringify drops a key whose value is undefined
StringifyProperty(p) ==
  IF "isPrimaryKey" \notin DOMAIN p THEN p
  ELSE IF IsSome(p.isPrimaryKey)
  THEN [name |-> p.name, type |-> p.type, isPrimaryKey |-> Get(p.isPrimaryKey)]
  ELSE [name |-> p.name, type |-> p.type]

StringifyTable(tb) ==
  [k \in DOMAIN tb |->
     IF k = "properties"
     THEN [i \in DOMAIN tb.properties |-> StringifyProperty(tb.properties[i])]
     ELSE tb[k]]

\* JSON.stringify(schema, null, 2)
StringifySchema(schema) ==
  [nodeTables |-> [i \in DOMAIN schema.nodeTables |-> StringifyTable(schema.nodeTables[i])],
   relTables |-> [i \in DOMAIN schema.relTables |-> StringifyTable(schema.relTables[i])]]

(***************************************************************************)
(* Query executor.  call is what the engine does with the statement.       *)
(* The result carries the cursors the executor obtained (opened) and the   *)
(* ones it released (closed).                                              *)
(***************************************************************************)
\* an executor that swallows an engine failure and returns no rows
executeCypherQuerySwallows(connection, cypher, call) ==
  IF ~IsSome(connection)
  THEN Throw(<<"Database connection is not available">>)
         @@ [opened |-> 0, closed |-> 0, submitted |-> <<>>]
  ELSE IF call.status = "ok"
  THEN Return(call.rows)
         @@ [opened |-> 1, closed |-> 1, submitted |-> <<cypher>>]
  ELSE Return(<<>>)
         @@ [opened |-> Opened(call), closed |-> 0, submitted |-> <<cypher>>]

\* an executor whose failure does not carry the engine's message
executeCypherQueryDropsMessage(connection, cypher, call) ==
  IF ~IsSome(connection)
  THEN Throw(<<"Database connection is not available">>)
         @@ [opened |-> 0, closed |-> 0, submitted |-> <<>>]
  ELSE IF call.status = "ok"
  THEN Return(call.rows)
         @@ [opened |-> 1, closed |-> 1, submitted |-> <<cypher>>]
  ELSE Throw(<<"Database query failed">>)
         @@ [opened |-> Opened(call), closed |-> 0, submitted |-> <<cypher>>]

executeCypherQuery(connection, cypher, call) ==
  IF ~IsSome(connection)
  THEN Throw(<<"Database connection is not available">>)
         @@ [opened |-> 0, closed |-> 0, submitted |-> <<>>]
  ELSE IF call.status = "ok"
  THEN Return(call.rows)
         @@ [opened |-> 1, closed |-> 1, submitted |-> <<cypher>>]
  ELSE Throw(<<"Database query failed: ">> \o call.message)
         @@ [opened |-> Opened(call), closed |-> 0, submitted |-> <<cypher>>]

(***************************************************************************)
(* Schema reflection.  fault gives, for every engine call of one           *)
(* reflection, whether it succeeds, fails in query() or fails in getAll(). *)
(***************************************************************************)
ListSite == <<"list", "">>
InfoSite(n) == <<"info", n>>
ConnSite(n) == <<"conn", n>>

\* a read-only engine call that would give rows
ReadCall(rows, mode) ==
  EngineCall([ok |-> TRUE, catalog |-> <<>>, rows |-> rows], mode, <<>>)

\* obj[key] of a JavaScript object: undefined when the key is absent
Prop(obj, key) == IF key \in DOMAIN obj THEN Some(obj[key]) ELSE None

\* a property left as it is
DeletePrimaryKeyKeeps(property) == property

\* delete property.isPrimaryKey
DeletePrimaryKey(property) ==
  [k \in DOMAIN property \ {"isPrimaryKey"} |-> property[k]]

\* a relationship branch that pushes the descriptor before the connectivity
\* is fetched, so that a failed fetch leaves it in the list
ReflectRelTablePushesFirst(table, properties, conn) ==
  LET stripped == [i \in DOMAIN properties |-> DeletePrimaryKey(properties[i])]
  IN IF conn.status # "ok"
     THEN [node |-> <<>>,
           rel |-> << [name |-> table.name, properties |-> stripped] >>,
           opened |-> 1 + Opened(conn), closed |-> 1]
     ELSE [node |-> <<>>,
           rel |-> << [name |-> table.name,
                       properties |-> stripped,
                       connectivity |->
                         [i \in DOMAIN conn.rows |->
                            [src |-> conn.rows[i]["source table name"],
                             dst |-> conn.rows[i]["destination table name"]]]] >>,
           opened |-> 2, closed |-> 2]

\* the relationship branch of the loop body: strip the primary-key flag,
\* fetch the connectivity (conn), push the descriptor
ReflectRelTable(table, properties, conn) ==
  LET stripped == [i \in DOMAIN properties |-> DeletePrimaryKey(properties[i])]
  IN IF conn.status # "ok"
     THEN [node |-> <<>>, rel |-> <<>>,
           opened |-> 1 + Opened(conn), closed |-> 1]
     ELSE [node |-> <<>>,
           rel |-> << [name |-> table.name,
                       properties |-> stripped,
                       connectivity |->
                         [i \in DOMAIN conn.rows |->
                            [src |-> conn.rows[i]["source table name"],
                             dst |-> conn.rows[i]["destination table name"]]]] >>,
           opened |-> 2, closed |-> 2]

\* the body of the loop over the listed tables, with its try/catch: the
\* descriptor pushed to nodeTables or relTables (node, rel: zero or one)
ReflectTable(table, fault) ==
  LET info == ReadCall(TableInfoRows(table.name), fault[InfoSite(table.name)])
      infoQuery == <<"TABLE_INFO", table.name>>
      connQuery == <<"SHOW_CONNECTION", table.name>>
  IN IF info.status # "ok"
     THEN [node |-> <<>>, rel |-> <<>>, opened |-> Opened(info), closed |-> 0,
           submitted |-> <<infoQuery>>]
     ELSE
       LET properties == [i \in DOMAIN info.rows |->
                            [name |-> info.rows[i]["name"],
                             type |-> info.rows[i]["type"],
                             isPrimaryKey |-> Prop(info.rows[i], "primary key")]]
       IN IF table.type = TABLE_TYPES.NODE
          THEN [node |-> << [name |-> table.name, properties |-> properties] >>,
                rel |-> <<>>, opened |-> 1, closed |-> 1,
                submitted |-> <<infoQuery>>]
          ELSE IF table.type = TABLE_TYPES.REL
          THEN ReflectRelTable(table, properties,
                 ReadCall(ShowConnectionRows(table.name), fault[ConnSite(table.name)]))
                 @@ [submitted |-> <<infoQuery, connQuery>>]
          ELSE [node |-> <<>>, rel |-> <<>>, opened |-> 1, closed |-> 1,
                submitted |-> <<infoQuery>>]

RECURSIVE ProcessTables(_, _, _)
ProcessTables(tables, fault, acc) ==
  IF tables = <<>> THEN acc
  ELSE LET r == ReflectTable(Head(tables), fault)
       IN ProcessTables(Tail(tables), fault,
            [nodeTables |-> acc.nodeTables \o r.node,
             relTables |-> acc.relTables \o r.rel,
             opened |-> acc.opened + r.opened,
             closed |-> acc.closed + r.closed,
             submitted |-> acc.submitted \o r.submitted])

RECURSIVE InsertByName(_, _)
InsertByName(sorted, x) ==
  IF sorted = <<>> THEN <<x>>
  ELSE IF localeCompare(x.name, Head(sorted).name) < 0 THEN <<x>> \o sorted
  ELSE <<Head(sorted)>> \o InsertByName(Tail(sorted), x)

\* the tables left in the order they were pushed
SortByNameKeepsOrder(tables) == tables

\* tables.sort((a, b) => a.name.localeCompare(b.name)), a stable sort
RECURSIVE SortByName(_)
SortByName(tables) ==
  IF tables = <<>> THEN <<>>
  ELSE InsertByName(SortByName(SubSeq(tables, 1, Len(tables) - 1)),
                    tables[Len(tables)])

\* lists that still hold an entry for every table of the schema answered
\* before
ListsKeptFromLastCall ==
  IF IsSome(reflected)
  THEN [nodeTables |->
          IF DOMAIN Get(reflected).nodeTables = {} THEN <<>>
          ELSE [i \in DOMAIN Get(reflected).nodeTables |->
                  [name |-> Get(reflected).nodeTables[i].name,
                   properties |-> <<>>]],
        relTables |->
          IF DOMAIN Get(reflected).relTables = {} THEN <<>>
          ELSE [i \in DOMAIN Get(reflected).relTables |->
                  [name |-> Get(reflected).relTables[i].name,
                   properties |-> <<>>,
                   connectivity |-> <<>>]]]
  ELSE [nodeTables |-> <<>>, relTables |-> <<>>]

\* const nodeTables = []; const relTables = []; made anew by every call
FreshLists == [nodeTables |-> <<>>, relTables |-> <<>>]

getSchema(connection, cat, fault) ==
  LET list == ReadCall(ShowTablesRows(cat), fault[ListSite])
  IN IF ~IsSome(connection)
     THEN Throw(<<"Cannot read properties of undefined (reading 'query')">>)
            @@ [opened |-> 0, closed |-> 0, submitted |-> <<>>]
     ELSE IF list.status # "ok"
     THEN Throw(list.message)
            @@ [opened |-> Opened(list), closed |-> 0, submitted |-> << <<"show_tables", "">> >>]
     ELSE LET acc == ProcessTables(list.rows, fault,
                       FreshLists @@
                       [opened |-> 1, closed |-> 1,
                        submitted |-> << <<"show_tables", "">> >>])
          IN Return([nodeTables |-> SortByName(acc.nodeTables),
                     relTables |-> SortByName(acc.relTables)])
               @@ [opened |-> acc.opened, closed |-> acc.closed,
                   submitted |-> acc.submitted]

(***************************************************************************)
(* The CallTool request handler.                                           *)
(***************************************************************************)
dbPath == "/data/kuzu"

\* the connection handle created at startup
conn == Some("connection")

TextResult(text, isError) ==
  [content |-> << [type |-> "text", text |-> text] >>, isError |-> isError]

NoCall == [status |-> "none"]

NoEffect(cat) ==
  [catalog |-> cat, opened |-> 0, closed |-> 0, submitted |-> <<>>,
   call |-> NoCall]

\* a tool list that leaves out the tool added last
ListToolsWithoutGenerate ==
  << [name |-> "graphQuery", required |-> <<"cypher">>],
     [name |-> "getSchema", required |-> <<>>],
     [name |-> "healthCheck", required |-> <<>>] >>

\* the tools the ListTools handler advertises, with their required arguments
ListTools ==
  << [name |-> "graphQuery", required |-> <<"cypher">>],
     [name |-> "getSchema", required |-> <<>>],
     [name |-> "healthCheck", required |-> <<>>],
     [name |-> "generateKuzuCypher", required |-> <<"question">>] >>

\* the graphQuery branch
GraphQueryBranch(request, env, cat, ro) ==
  LET arguments == Get(request.params).arguments
  IN IF ~IsSome(arguments) \/ Falsy(Get(arguments).cypher)
     THEN Throw(<<"Missing required parameter: cypher">>) @@ NoEffect(cat)
     ELSE IF Get(Get(arguments).cypher).t # "string"
     THEN Throw(<<"request.params.arguments.cypher.trim is not a function">>)
            @@ NoEffect(cat)
     ELSE
       LET cypher == Trim(Get(Get(arguments).cypher).str)
       IN IF cypher = <<>>
          THEN Throw(<<"Cypher query cannot be empty">>) @@ NoEffect(cat)
          ELSE
            LET call == EngineCall(Execute(cypher, cat, ro, env.rows, env.pos),
                                   env.mode, cat)
                rows == executeCypherQuery(conn, cypher, call)
                effect == [catalog |-> call.catalog, opened |-> rows.opened,
                           closed |-> rows.closed, submitted |-> rows.submitted,
                           call |-> call]
            IN IF ~rows.ok
               THEN Throw(rows.message) @@ effect
               ELSE LET text == StringifyRows(rows.value)
                    IN IF ~text.ok
                       THEN Throw(text.message) @@ effect
                       ELSE Return(TextResult(text.value, FALSE)) @@ effect

\* a branch that answers with an empty schema when the reflection fails
GetSchemaBranchAnswersEmpty(request, env, cat) ==
  LET schema == getSchema(conn, cat, env.fault)
      effect == [catalog |-> cat, opened |-> schema.opened,
                 closed |-> schema.closed, submitted |-> schema.submitted,
                 call |-> NoCall]
  IN IF ~schema.ok
     THEN Return(TextResult([nodeTables |-> <<>>, relTables |-> <<>>], FALSE))
            @@ effect
     ELSE Return(TextResult(StringifySchema(schema.value), FALSE)) @@ effect

\* the getSchema branch
GetSchemaBranch(request, env, cat) ==
  LET schema == getSchema(conn, cat, env.fault)
      effect == [catalog |-> cat, opened |-> schema.opened,
                 closed |-> schema.closed, submitted |-> schema.submitted,
                 call |-> NoCall]
  IN IF ~schema.ok
     THEN Throw(schema.message) @@ effect
     ELSE Return(TextResult(StringifySchema(schema.value), FALSE)) @@ effect

\* a success record whose count is one less than the rows listed
statsCountOffByOne(ro, tablesCount, time) ==
  [status |-> "healthy",
   dbPath |-> dbPath,
   readOnly |-> ro,
   tablesCount |-> tablesCount - 1,
   timestamp |-> time,
   version |-> "0.1.0"]

\* the record built when the probe succeeds
stats(ro, tablesCount, time) ==
  [status |-> "healthy",
   dbPath |-> dbPath,
   readOnly |-> ro,
   tablesCount |-> tablesCount,
   timestamp |-> time,
   version |-> "0.1.0"]

\* a failure record with another status word
errorStatsOtherStatus(ro, message, time) ==
  [status |-> "error",
   dbPath |-> dbPath,
   readOnly |-> ro,
   error |-> message,
   timestamp |-> time,
   version |-> "0.1.0"]

\* a failure record that leaves the message out
errorStatsWithoutMessage(ro, message, time) ==
  [status |-> "unhealthy",
   dbPath |-> dbPath,
   readOnly |-> ro,
   timestamp |-> time,
   version |-> "0.1.0"]

\* the record built when the probe fails
errorStats(ro, message, time) ==
  [status |-> "unhealthy",
   dbPath |-> dbPath,
   readOnly |-> ro,
   error |-> message,
   timestamp |-> time,
   version |-> "0.1.0"]

\* a failure answer with the error flag cleared
HealthCheckCatchClearsFlag(record) == TextResult(record, FALSE)

\* what the inner catch block of the healthCheck branch returns
HealthCheckCatch(record) == TextResult(record, TRUE)

\* the healthCheck branch, with its own try/catch
HealthCheckBranch(request, env, cat, ro) ==
  LET testResult == ReadCall(ShowTablesRows(cat), env.mode)
      effect == [catalog |-> cat, opened |-> Opened(testResult),
                 closed |-> IF testResult.status = "ok" THEN 1 ELSE 0,
                 submitted |-> << <<"show_tables", "">> >>,
                 call |-> testResult]
  IN IF testResult.status = "ok"
     THEN Return(TextResult(stats(ro, Len(testResult.rows), env.time), FALSE))
            @@ effect
     ELSE Return(HealthCheckCatch(errorStats(ro, testResult.message, env.time)))
            @@ effect

\* the generateKuzuCypher branch
GenerateKuzuCypherBranch(request, cat) ==
  Return(TextResult(<<"Please use the generateKuzuCypher prompt instead of this tool, as it requires LLM access to generate Cypher from natural language.">>, FALSE))
    @@ NoEffect(cat)

\* the try block of the handler
CallToolTry(request, env, cat, ro) ==
  IF ~IsSome(request.params) \/ ~IsSome(Get(request.params).name)
       \/ Get(Get(request.params).name) = ""
  THEN Throw(<<"Invalid request: missing tool name">>) @@ NoEffect(cat)
  ELSE LET name == Get(Get(request.params).name)
       IN IF name = "graphQuery" THEN GraphQueryBranch(request, env, cat, ro)
          ELSE IF name = "getSchema" THEN GetSchemaBranch(request, env, cat)
          ELSE IF name = "healthCheck" THEN HealthCheckBranch(request, env, cat, ro)
          ELSE IF name = "generateKuzuCypher" THEN GenerateKuzuCypherBranch(request, cat)
          ELSE Throw(<<"Unknown tool: ", name>>) @@ NoEffect(cat)

\* a handler that rejects: the transport answers with a protocol error
Raised(message) ==
  [raised |-> TRUE, response |-> [error |-> [message |-> message]]]

\* a catch block that rethrows, as the prompt handler's does
CallToolCatchRethrows(message) == Raised(message)

\* the catch block of the handler: what the handler answers for an error
\* thrown in its try block
CallToolCatch(message) ==
  [raised |-> FALSE, response |-> TextResult(<<"Error: ">> \o message, TRUE)]

\* the handler: how the call ends (raised: the handler rejects, which the
\* transport answers with a protocol error; otherwise its response) and
\* what it did to the engine
CallToolHandler(request, env, cat, ro) ==
  LET Outcome(try) ==
        (IF try.ok THEN [raised |-> FALSE, response |-> try.value]
         ELSE CallToolCatch(try.message))
          @@ [catalog |-> try.catalog, opened |-> try.opened,
              closed |-> try.closed, submitted |-> try.submitted,
              call |-> try.call]
  IN Outcome(CallToolTry(request, env, cat, ro))

(***************************************************************************)
(* The prompt template and the GetPrompt request handler.                  *)
(***************************************************************************)
\* the prompts the ListPrompts handler advertises, with their arguments
ListPrompts ==
  << [name |-> "generateKuzuCypher",
      arguments |-> << [name |-> "question", required |-> TRUE] >>] >>

\* a template that embeds the entity tables only
getPromptNodeTablesOnly(question, schema) ==
  [task |-> "Task: Generate Kuzu Cypher statement to query a graph database.",
   schema |-> StringifySchema([nodeTables |-> schema.nodeTables,
                               relTables |-> <<>>]),
   question |-> question]

\* the template text: the fixed instructions, then JSON.stringify(schema,
\* null, 2) after "Schema:" and the question after "The question is:"
getPrompt(question, schema) ==
  [task |-> "Task: Generate Kuzu Cypher statement to query a graph database.",
   schema |-> StringifySchema(schema),
   question |-> question]

PromptMessages(text) ==
  [messages |-> << [role |-> "user",
                    content |-> [type |-> "text", text |-> text]] >>]

\* an unknown name answered with an empty rendering
UnknownPromptRendersNothing(name, cat) ==
  Return([messages |-> <<>>]) @@ NoEffect(cat)

\* the throw after the branch of the one defined template
UnknownPrompt(name, cat) ==
  Throw(<<"Unknown prompt: ", name>>) @@ NoEffect(cat)

\* the generateKuzuCypher branch
GenerateKuzuCypherPrompt(request, env, cat) ==
  LET arguments == Get(request.params).arguments
  IN IF ~IsSome(arguments) \/ Falsy(Get(arguments).question)
     THEN Throw(<<"Missing required parameter: question">>) @@ NoEffect(cat)
     ELSE IF Get(Get(arguments).question).t # "string"
     THEN Throw(<<"request.params.arguments.question.trim is not a function">>)
            @@ NoEffect(cat)
     ELSE
       LET question == Trim(Get(Get(arguments).question).str)
       IN IF question = <<>>
          THEN Throw(<<"Question cannot be empty">>) @@ NoEffect(cat)
          ELSE
            LET schema == getSchema(conn, cat, env.fault)
                effect == [catalog |-> cat, opened |-> schema.opened,
                           closed |-> schema.closed,
                           submitted |-> schema.submitted, call |-> NoCall]
            IN IF ~schema.ok
               THEN Throw(schema.message) @@ effect
               ELSE Return(PromptMessages(getPrompt(question, schema.value)))
                      @@ effect

\* the try block of the handler
GetPromptTry(request, env, cat) ==
  IF ~IsSome(request.params) \/ ~IsSome(Get(request.params).name)
       \/ Get(Get(request.params).name) = ""
  THEN Throw(<<"Invalid request: missing prompt name">>) @@ NoEffect(cat)
  ELSE LET name == Get(Get(request.params).name)
       IN IF name = "generateKuzuCypher"
          THEN GenerateKuzuCypherPrompt(request, env, cat)
          ELSE UnknownPrompt(name, cat)

\* a catch block that answers with an error result, as the tool handler's does
GetPromptCatchAnswers(message) ==
  [raised |-> FALSE, exits |-> FALSE,
   response |-> TextResult(<<"Error: ">> \o message, TRUE)]

\* a catch block that ends the process after logging
GetPromptCatchExits(message) ==
  [raised |-> TRUE, exits |-> TRUE,
   response |-> [error |-> [message |-> message]]]

\* the catch block of the handler: it logs and rethrows, nothing else
GetPromptCatch(message) == Raised(message) @@ [exits |-> FALSE]

GetPromptHandler(request, env, cat) ==
  LET Outcome(try) ==
        (IF try.ok
         THEN [raised |-> FALSE, exits |-> FALSE, response |-> try.value]
         ELSE GetPromptCatch(try.message))
          @@ [catalog |-> try.catalog, opened |-> try.opened,
              closed |-> try.closed, submitted |-> try.submitted,
              call |-> try.call]
  IN Outcome(GetPromptTry(request, env, cat))

(***************************************************************************)
(* Requests and engine behaviours the model draws from.                    *)
(***************************************************************************)
EmptyArguments == [cypher |-> None]

CypherInputs ==
  { None, Some(Str(<<>>)), Some(Str(<<" ">>)), Some(Str(<<"\n", " ">>)),
    Some(Num(0)), Some(Num(7)),
    Some(Str(<<" ", "MATCH", "\n">>)), Some(Str(<<"BAD">>)) }
    \cup { Some(Str(<<"CREATE", n>>)) : n \in TableNames }
    \cup { Some(Str(<<" ", "DROP", n>>)) : n \in TableNames }

ToolRequests ==
  { [params |-> None] }
    \cup { [params |-> Some([name |-> n, arguments |-> Some(EmptyArguments)])] :
             n \in { None, Some(""), Some("doesNotExist"), Some("getSchema"),
                     Some("healthCheck"), Some("generateKuzuCypher") } }
    \cup { [params |-> Some([name |-> Some(n), arguments |-> None])] :
             n \in { "graphQuery", "getSchema", "doesNotExist" } }
    \cup { [params |-> Some([name |-> Some("graphQuery"),
                             arguments |-> Some([cypher |-> c])])] :
             c \in CypherInputs }
    \cup { [params |-> Some([name |-> Some("generateKuzuCypher"),
                             arguments |-> Some([question |-> q])])] :
             q \in { None, Some(Str(<<" ">>)), Some(Str(<<"how many">>)) } }

RequestName(request) ==
  IF IsSome(request.params) /\ IsSome(Get(request.params).name)
  THEN Get(Get(request.params).name)
  ELSE ""

\* the engine calls one reflection of the catalog makes
Sites(cat) ==
  { ListSite }
    \cup { InfoSite(cat[i]) : i \in DOMAIN cat }
    \cup { ConnSite(cat[i]) : i \in { j \in DOMAIN cat : TableType(cat[j]) = "REL" } }

NoFault(cat) == [s \in Sites(cat) |-> "ok"]

\* the behaviours in which at most k of these calls fail
RECURSIVE FaultsUpTo(_, _)
FaultsUpTo(cat, k) ==
  IF k = 0 THEN { NoFault(cat) }
  ELSE LET fewer == FaultsUpTo(cat, k - 1)
       IN fewer \cup { [f EXCEPT ![s] = m] :
                         f \in fewer, s \in Sites(cat), m \in Modes \ {"ok"} }

SchemaFaults(cat) == FaultsUpTo(cat, MaxFaults)

Timestamps == { "2025-06-01T00:00:00.000Z", "2025-06-01T00:00:01.000Z" }

DefaultEnv(cat) ==
  [mode |-> "ok", rows |-> <<>>, pos |-> 1, fault |-> NoFault(cat),
   time |-> "2025-06-01T00:00:00.000Z"]

\* the statement a graphQuery request would submit, <<>> when it has none
StatementOf(request) ==
  LET arguments == Get(request.params).arguments
  IN IF IsSome(arguments) /\ IsSome(Get(arguments).cypher)
          /\ Get(Get(arguments).cypher).t = "string"
     THEN Trim(Get(Get(arguments).cypher).str)
     ELSE <<>>

\* what the engine and the clock may do during one request: the engine
\* call fails or not, the rows a MATCH finds, the listing position a
\* created table gets, the faults of a reflection, the time of a probe
Envs(request, cat) ==
  LET name == RequestName(request)
      d == DefaultEnv(cat)
  IN IF name = "graphQuery"
     THEN LET stmt == StatementOf(request)
          IN IF stmt = <<>> THEN { d }
             ELSE { [d EXCEPT !.mode = m] : m \in Modes }
                    \cup (IF stmt = <<"MATCH">>
                          THEN { [d EXCEPT !.rows = r] : r \in RowSets }
                          ELSE {})
                    \cup (IF stmt[1] = "CREATE"
                          THEN { [d EXCEPT !.pos = p] : p \in 1..(Len(cat) + 1) }
                          ELSE {})
     ELSE IF name = "getSchema"
     THEN { [d EXCEPT !.fault = f] : f \in SchemaFaults(cat) }
     ELSE IF name = "healthCheck"
     THEN { [d EXCEPT !.mode = m, !.time = t] : m \in Modes, t \in Timestamps }
     ELSE { d }

QuestionInputs ==
  { None, Some(Str(<<>>)), Some(Str(<<" ">>)), Some(Str(<<"\n", " ">>)),
    Some(Num(0)), Some(Num(7)),
    Some(Str(<<" ", "who knows whom", "\n">>)), Some(Str(<<"how many">>)) }

PromptRequests ==
  { [params |-> None] }
    \cup { [params |-> Some([name |-> n,
                             arguments |-> Some([question |-> Some(Str(<<"how many">>))])])] :
             n \in { None, Some(""), Some("doesNotExist"), Some("getSchema") } }
    \cup { [params |-> Some([name |-> Some(n), arguments |-> None])] :
             n \in { "generateKuzuCypher", "doesNotExist" } }
    \cup { [params |-> Some([name |-> Some("generateKuzuCypher"),
                             arguments |-> Some([question |-> q])])] :
             q \in QuestionInputs }

\* the question a render request carries after trimming, <<>> when none
QuestionOf(request) ==
  LET arguments == Get(request.params).arguments
  IN IF IsSome(arguments) /\ IsSome(Get(arguments).question)
          /\ Get(Get(arguments).question).t = "string"
     THEN Trim(Get(Get(arguments).question).str)
     ELSE <<>>

\* what the engine may do during one render request
PromptEnvs(request, cat) ==
  IF RequestName(request) = "generateKuzuCypher" /\ QuestionOf(request) # <<>>
  THEN { [DefaultEnv(cat) EXCEPT !.fault = f] : f \in SchemaFaults(cat) }
  ELSE { DefaultEnv(cat) }

Catalogs ==
  { c \in UNION { [1..k -> TableNames] : k \in 0..MaxTables } :
      \A i, j \in DOMAIN c : i # j => c[i] # c[j] }

(***************************************************************************)
(* Startup: the launcher's environment, the module-level initialization,   *)
(* main() and the setup script that main() loads into the server process.  *)
(***************************************************************************)
ProcessEnvs ==
  { [KUZU_READ_ONLY |-> v] : v \in { None, Some("true"), Some("false"), Some("1") } }

LauncherOptions == { [readOnly |-> b] : b \in BOOLEAN }

\* the environment the launcher gives the server process
startServer(options, env) ==
  IF options.readOnly THEN [env EXCEPT !.KUZU_READ_ONLY = Some("true")] ELSE env

\* the environments a server process may start in: launched directly, or
\* through the launcher
Environments ==
  ProcessEnvs \cup { startServer(o, e) : o \in LauncherOptions, e \in ProcessEnvs }

\* process.env.KUZU_READ_ONLY === "true"
IsReadOnlyEnv(env) == env.KUZU_READ_ONLY = Some("true")

\* new kuzu.Database(dbPath, 0, true, isReadOnly), new kuzu.Connection(db)
ServerHandle(ro) == [opener |-> "index.js", path |-> dbPath, readOnly |-> ro]

\* new kuzu.Database(dbPath, 0, true, false), new kuzu.Connection(db) of the
\* setup script: the same path, resolved from the same arguments
SetupHandle == [opener |-> "setup-with-callback.js", path |-> dbPath, readOnly |-> FALSE]

\* how the module-level initialization may end
StartOutcomes == { "ok", "mkdirFails", "openFails" }

\* a seeding condition that forgets the read-only flag
ShouldSeedIgnoresReadOnly(tables, ro) == Len(tables) = 0

\* tables.length === 0 && !isReadOnly
ShouldSeed(tables, ro) == Len(tables) = 0 /\ ~ro

\* main() up to server.connect: whether it ends the process (exits) and
\* whether it loads the setup script (seeds)
main(cat, ro, probeMode, scriptExists, listMode) ==
  LET tableResult == ReadCall(ShowTablesRows(cat), probeMode)
  IN IF ~IsSome(conn) THEN [exits |-> TRUE, seeds |-> FALSE]
     ELSE IF tableResult.status # "ok" THEN [exits |-> ro, seeds |-> FALSE]
     ELSE LET schema == getSchema(conn, cat,
                                  [NoFault(cat) EXCEPT ![ListSite] = listMode])
          IN [exits |-> ~schema.ok /\ ro,
              seeds |-> ShouldSeed(tableResult.rows, ro) /\ scriptExists]

\* the tables the setup script creates, in order
SeedTables == <<"a", "ab">>

NotSeeding == [status |-> "none"]

\* CREATE ... TABLE IF NOT EXISTS
CreateIfNotExists(cat, n) == IF InCatalog(cat, n) THEN cat ELSE cat \o <<n>>

(***************************************************************************)
(* The server.  last records the request whose handler has run and whose   *)
(* answer the transport has not written yet: the envelope, the catalog     *)
(* before and after it, what the engine did, and how the handler ended.    *)
(***************************************************************************)
Idle == [kind |-> "none"]

Init ==
  /\ running = TRUE
  /\ \E env \in Environments : isReadOnly = IsReadOnlyEnv(env)
  /\ catalog \in Catalogs
  /\ last = Idle
  /\ phase = "boot"
  /\ exit = ""
  /\ handles = <<>>
  /\ seeding = NotSeeding
  /\ pending = <<>>
  /\ emitted = <<>>
  /\ reflected = None

\* the exit code of the process for each way it ends
ExitCode(cause) ==
  IF cause \in {"signal", "setup done"} THEN 0 ELSE 1

\* an initialization that logs a failure and goes on without a connection
StartIgnoresFailure ==
  /\ running
  /\ phase = "boot"
  /\ \E outcome \in StartOutcomes :
       /\ phase' = "main"
       /\ handles' = IF outcome = "ok" THEN <<ServerHandle(isReadOnly)>> ELSE <<>>
       /\ UNCHANGED <<running, exit>>
  /\ UNCHANGED <<isReadOnly, catalog, last, seeding>>
  /\ UNCHANGED <<pending, emitted, reflected>>

\* the module-level initialization: the database directory is created
\* when missing, the database and the connection are opened
Start ==
  /\ running
  /\ phase = "boot"
  /\ \E outcome \in StartOutcomes :
       IF outcome = "ok"
       THEN /\ phase' = "main"
            /\ handles' = <<ServerHandle(isReadOnly)>>
            /\ UNCHANGED <<running, exit>>
       ELSE /\ running' = FALSE
            /\ exit' = "startup"
            /\ UNCHANGED <<phase, handles>>
  /\ UNCHANGED <<isReadOnly, catalog, last, seeding>>
  /\ UNCHANGED <<pending, emitted, reflected>>

\* main() up to server.connect
Main ==
  /\ running
  /\ phase = "main"
  /\ \E probeMode \in Modes, scriptExists \in BOOLEAN, listMode \in Modes :
       \E m \in { main(catalog, isReadOnly, probeMode, scriptExists, listMode) } :
          IF m.exits
          THEN /\ running' = FALSE
               /\ exit' = "startup"
               /\ UNCHANGED <<phase, handles, seeding>>
          ELSE /\ phase' = "connect"
               /\ IF m.seeds
                  THEN /\ handles' = Append(handles, SetupHandle)
                       /\ seeding' = [status |-> "running", next |-> 1]
                  ELSE UNCHANGED <<handles, seeding>>
               /\ UNCHANGED <<running, exit>>
  /\ UNCHANGED <<isReadOnly, catalog, last>>
  /\ UNCHANGED <<pending, emitted, reflected>>

\* server.connect(transport)
Connect ==
  /\ running
  /\ phase = "connect"
  /\ \E connected \in BOOLEAN :
       IF connected
       THEN phase' = "serving" /\ UNCHANGED <<running, exit>>
       ELSE running' = FALSE /\ exit' = "startup" /\ UNCHANGED phase
  /\ UNCHANGED <<isReadOnly, catalog, last, handles, seeding>>
  /\ UNCHANGED <<pending, emitted, reflected>>

\* one statement of the setup script, on the script's own connection; a
\* failure ends the process with code 1
Seed ==
  /\ running
  /\ seeding.status = "running"
  /\ seeding.next <= Len(SeedTables)
  /\ \E mode \in { "ok", "query", "drain" } :
       IF mode = "ok"
       THEN /\ catalog' = CreateIfNotExists(catalog, SeedTables[seeding.next])
            /\ seeding' = [seeding EXCEPT !.next = @ + 1]
            /\ UNCHANGED <<running, exit>>
       ELSE /\ running' = FALSE
            /\ exit' = "setup failed"
            /\ seeding' = [status |-> "failed"]
            /\ UNCHANGED catalog
  /\ UNCHANGED <<isReadOnly, last, phase, handles>>
  /\ UNCHANGED <<pending, emitted, reflected>>

\* the setup script has run all its statements: it lists the tables and
\* ends the process with code 0
SeedExit ==
  /\ running
  /\ seeding.status = "running"
  /\ seeding.next > Len(SeedTables)
  /\ running' = FALSE
  /\ exit' = "setup done"
  /\ seeding' = [status |-> "done"]
  /\ UNCHANGED <<isReadOnly, catalog, last, phase, handles>>
  /\ UNCHANGED <<pending, emitted, reflected>>

\* a tools/call request is handled
CallTool ==
  /\ running
  /\ phase = "serving"
  /\ last = Idle
  /\ \E request \in ToolRequests :
       \E env \in Envs(request, catalog) :
         \E h \in { CallToolHandler(request, env, catalog, isReadOnly) } :
            /\ Len(h.catalog) <= MaxTables
            /\ catalog' = h.catalog
            /\ last' = [kind |-> "tool",
                        request |-> request,
                        name |-> RequestName(request),
                        before |-> catalog,
                        after |-> h.catalog,
                        mode |-> env.mode,
                        fault |-> env.fault,
                        call |-> h.call,
                        raised |-> h.raised,
                        response |-> h.response,
                        opened |-> h.opened,
                        closed |-> h.closed,
                        submitted |-> h.submitted]
  /\ UNCHANGED <<running, isReadOnly, phase, exit, handles, seeding>>
  /\ UNCHANGED <<pending, emitted, reflected>>

\* a prompts/get request is handled
GetPrompt ==
  /\ running
  /\ phase = "serving"
  /\ last = Idle
  /\ \E request \in PromptRequests :
       \E env \in PromptEnvs(request, catalog) :
         \E h \in { GetPromptHandler(request, env, catalog) } :
            /\ catalog' = h.catalog
            /\ running' = ~h.exits
            /\ exit' = IF h.exits THEN "handler" ELSE exit
            /\ last' = [kind |-> "prompt",
                        request |-> request,
                        name |-> RequestName(request),
                        before |-> catalog,
                        after |-> h.catalog,
                        mode |-> env.mode,
                        fault |-> env.fault,
                        call |-> h.call,
                        raised |-> h.raised,
                        response |-> h.response,
                        opened |-> h.opened,
                        closed |-> h.closed,
                        submitted |-> h.submitted]
  /\ UNCHANGED <<isReadOnly, phase, handles, seeding>>
  /\ UNCHANGED <<pending, emitted, reflected>>

\* SIGINT or SIGTERM: process.exit(0)
Signal ==
  /\ running
  /\ running' = FALSE
  /\ exit' = "signal"
  /\ UNCHANGED <<isReadOnly, catalog, last, phase, handles, seeding>>
  /\ UNCHANGED <<pending, emitted, reflected>>

\* the transport writes the answer of the handled request
Respond ==
  /\ running
  /\ last # Idle
  /\ last' = Idle
  /\ UNCHANGED <<running, isReadOnly, catalog, phase, exit, handles, seeding>>
  /\ UNCHANGED <<pending, emitted, reflected>>

Next ==
  \/ Start \/ Main \/ Connect
  \/ Seed \/ SeedExit
  \/ CallTool \/ GetPrompt \/ Respond
  \/ Signal

Spec == Init /\ [][Next]_vars

(***************************************************************************)
(* The handlers as the asynchronous functions they are.  A handler runs    *)
(* until it awaits an engine call and is resumed when that call returns;   *)
(* pending holds the handlers that have started and not yet returned, in   *)
(* the order their requests arrived, emitted the requests answered, in     *)
(* the order of their answers.                                             *)
(***************************************************************************)
AsyncRequests ==
  { [kind |-> "tool",
     request |-> [params |-> Some([name |-> Some(n), arguments |-> None])]] :
       n \in { "getSchema", "healthCheck", "doesNotExist" } }
    \cup { [kind |-> "tool",
            request |-> [params |-> Some([name |-> Some("graphQuery"),
                                          arguments |-> Some([cypher |-> Some(Str(<<"MATCH">>))])])]] }
    \cup { [kind |-> "prompt",
            request |-> [params |-> Some([name |-> Some("generateKuzuCypher"),
                                          arguments |-> Some([question |-> Some(Str(<<"how many">>))])])]] }

\* the engine calls the handler of a request awaits, one after the other
AwaitedCalls(a, cat, ro) ==
  IF a.kind = "tool"
  THEN CallToolHandler(a.request, DefaultEnv(cat), cat, ro).submitted
  ELSE GetPromptHandler(a.request, DefaultEnv(cat), cat).submitted

\* the requests received so far
Received == Len(pending) + Len(emitted)

InitAsync ==
  /\ running = TRUE
  /\ \E env \in Environments : isReadOnly = IsReadOnlyEnv(env)
  /\ catalog \in Catalogs
  /\ last = Idle
  /\ phase = "serving"
  /\ exit = ""
  /\ handles = <<ServerHandle(isReadOnly)>>
  /\ seeding = NotSeeding
  /\ pending = <<>>
  /\ emitted = <<>>
  /\ reflected = None

\* a request arrives and its handler is called: it runs up to its first
\* await, where its first engine call is in flight
Receive ==
  /\ running
  /\ phase = "serving"
  /\ Received < MaxRequests
  /\ \E a \in AsyncRequests :
       pending' = Append(pending,
                         [id |-> Received + 1,
                          kind |-> a.kind,
                          name |-> RequestName(a.request),
                          calls |-> Len(AwaitedCalls(a, catalog, isReadOnly)),
                          returned |-> 0])
  /\ UNCHANGED <<running, isReadOnly, catalog, last, phase, exit, handles,
                 seeding, emitted, reflected>>

\* the engine call a handler awaits returns: the handler goes on to its
\* next await, or to its end
EngineReturns ==
  /\ running
  /\ \E i \in DOMAIN pending :
       /\ pending[i].returned < pending[i].calls
       /\ pending' = [pending EXCEPT ![i].returned = @ + 1]
  /\ UNCHANGED <<running, isReadOnly, catalog, last, phase, exit, handles,
                 seeding, emitted, reflected>>

\* a handler returns (or throws) and the answer of its request is sent
Emit ==
  /\ running
  /\ \E i \in DOMAIN pending :
       /\ pending[i].returned = pending[i].calls
       /\ emitted' = Append(emitted, pending[i].id)
       /\ pending' = SubSeq(pending, 1, i - 1) \o SubSeq(pending, i + 1, Len(pending))
  /\ UNCHANGED <<running, isReadOnly, catalog, last, phase, exit, handles,
                 seeding, reflected>>

NextAsync == Receive \/ EngineReturns \/ Emit \/ Signal

SpecAsync == InitAsync /\ [][NextAsync]_vars

(***************************************************************************)
(* The server answering one request after another, with a record of the    *)
(* schema the reflection before the current one answered with.             *)
(***************************************************************************)
\* the requests that change the catalog or reflect it
ReflectToolRequests ==
  { request \in ToolRequests : RequestName(request) \in {"graphQuery", "getSchema"} }

ReflectPromptRequests ==
  { request \in PromptRequests : RequestName(request) = "generateKuzuCypher" }

\* the schema an answered request carries, None when it carries none
SchemaAnswered(l) ==
  IF l.kind = "tool" /\ l.name = "getSchema" /\ ~l.raised
       /\ l.response.isError = FALSE
  THEN Some(l.response.content[1].text)
  ELSE IF l.kind = "prompt" /\ ~l.raised /\ "messages" \in DOMAIN l.response
  THEN Some(l.response.messages[1].content.text.schema)
  ELSE None

InitReflect ==
  /\ running = TRUE
  /\ \E env \in Environments : isReadOnly = IsReadOnlyEnv(env)
  /\ catalog \in Catalogs
  /\ last = Idle
  /\ phase = "serving"
  /\ exit = ""
  /\ handles = <<ServerHandle(isReadOnly)>>
  /\ seeding = NotSeeding
  /\ pending = <<>>
  /\ emitted = <<>>
  /\ reflected = None

\* a graphQuery or getSchema request is handled
CallToolReflect ==
  /\ running
  /\ last = Idle
  /\ \E request \in ReflectToolRequests :
       \E env \in Envs(request, catalog) :
         \E h \in { CallToolHandler(request, env, catalog, isReadOnly) } :
            /\ Len(h.catalog) <= MaxTables
            /\ catalog' = h.catalog
            /\ last' = [kind |-> "tool",
                        request |-> request,
                        name |-> RequestName(request),
                        before |-> catalog,
                        after |-> h.catalog,
                        mode |-> env.mode,
                        fault |-> env.fault,
                        call |-> h.call,
                        raised |-> h.raised,
                        response |-> h.response,
                        opened |-> h.opened,
                        closed |-> h.closed,
                        submitted |-> h.submitted]
  /\ UNCHANGED <<running, isReadOnly, phase, exit, handles, seeding>>
  /\ UNCHANGED <<pending, emitted, reflected>>

\* a render request is handled
GetPromptReflect ==
  /\ running
  /\ last = Idle
  /\ \E request \in ReflectPromptRequests :
       \E env \in PromptEnvs(request, catalog) :
         \E h \in { GetPromptHandler(request, env, catalog) } :
            /\ ~h.exits
            /\ catalog' = h.catalog
            /\ last' = [kind |-> "prompt",
                        request |-> request,
                        name |-> RequestName(request),
                        before |-> catalog,
                        after |-> h.catalog,
                        mode |-> env.mode,
                        fault |-> env.fault,
                        call |-> h.call,
                        raised |-> h.raised,
                        response |-> h.response,
                        opened |-> h.opened,
                        closed |-> h.closed,
                        submitted |-> h.submitted]
  /\ UNCHANGED <<running, isReadOnly, phase, exit, handles, seeding>>
  /\ UNCHANGED <<pending, emitted, reflected>>

\* the transport writes the answer; a schema it carries is the one a
\* later reflection would find had the server kept it
RespondReflect ==
  /\ running
  /\ last # Idle
  /\ last' = Idle
  /\ reflected' = IF IsSome(SchemaAnswered(last))
                  THEN SchemaAnswered(last)
                  ELSE reflected
  /\ UNCHANGED <<running, isReadOnly, catalog, phase, exit, handles, seeding>>
  /\ UNCHANGED <<pending, emitted>>

NextReflect == CallToolReflect \/ GetPromptReflect \/ RespondReflect \/ Signal

SpecReflect == InitReflect /\ [][NextReflect]_vars

(***************************************************************************)
(* Properties of the CallTool handler.                                     *)
(***************************************************************************)
ToolNames == { ListTools[i].name : i \in DOMAIN ListTools }

LastTool(name) == last.kind = "tool" /\ last.name = name

\* the last request named no tool, or a tool that is not in the catalog
LastToolUnknown == last.kind = "tool" /\ last.name \notin ToolNames

ResponseText == last.response.content[1].text

\* C1 as stated: an invocation with a missing or unknown operation name
\* fails as a transport-level error (the handler raises) and is never
\* answered with a normal response carrying isError=true.
C1_UnknownToolRaises == LastToolUnknown => last.raised

\* C1 amended: an invocation with a missing or unknown operation name is
\* answered by the handler with a normal response carrying isError=true
\* whose text references the unknown name when there is one; the handler
\* never raises for it and makes no engine call.
C1_UnknownToolIsOperationFailure ==
  LastToolUnknown =>
    /\ ~last.raised
    /\ last.response.isError = TRUE
    /\ ResponseText =
         (IF last.name = ""
          THEN <<"Error: ", "Invalid request: missing tool name">>
          ELSE <<"Error: ", "Unknown tool: ", last.name>>)
    /\ last.submitted = <<>>

C1_Witness ==
  /\ LastTool("doesNotExist")
  /\ ~last.raised
  /\ last.response.isError = TRUE
  /\ ResponseText[3] = "doesNotExist"

\* C2: for every statement the engine rejects, at query submission or while
\* draining rows, graphQuery answers with a normal response whose isError is
\* true; the handler never raises and the step leaves the process running.
C2_EngineFailureIsOperationFailure ==
  [][ (last' # last /\ last'.kind = "tool" /\ last'.name = "graphQuery"
         /\ last'.call.status \in {"queryFail", "drainFail"})
      => (/\ ~last'.raised
          /\ last'.response.isError = TRUE
          /\ running' = TRUE) ]_vars

C2_Witness ==
  /\ LastTool("graphQuery")
  /\ last.call.status = "drainFail"
  /\ ~last.raised
  /\ last.response.isError = TRUE
  /\ running

\* the cypher argument of the last request is missing, empty or whitespace
CypherBlank ==
  LET arguments == Get(last.request.params).arguments
  IN \/ ~IsSome(arguments)
     \/ ~IsSome(Get(arguments).cypher)
     \/ /\ Get(Get(arguments).cypher).t = "string"
        /\ \A i \in DOMAIN Get(Get(arguments).cypher).str :
             Get(Get(arguments).cypher).str[i] \in Whitespace

\* C3: graphQuery with the cypher argument missing, empty or only
\* whitespace returns a normal response with isError=true, and submits no
\* statement to the engine connection.
C3_BlankCypherIsArgumentError ==
  (LastTool("graphQuery") /\ CypherBlank) =>
    /\ ~last.raised
    /\ last.response.isError = TRUE
    /\ last.submitted = <<>>
    /\ last.call = NoCall
    /\ last.opened = 0
    /\ last.after = last.before

C3_Witness ==
  /\ LastTool("graphQuery")
  /\ IsSome(Get(last.request.params).arguments)
  /\ Get(Get(last.request.params).arguments).cypher = Some(Str(<<"\n", " ">>))
  /\ last.response.isError = TRUE
  /\ last.submitted = <<>>

\* C4 as stated: after any graphQuery request completes, every cursor the
\* executor obtained from the engine has been released, also when draining
\* the rows failed.
C4_CursorReleased ==
  LastTool("graphQuery") => last.closed = last.opened

\* C5: in every engine state (reachable, failing on query, failing on
\* drain) healthCheck returns a normal response, never a transport-level
\* error, and its record's status is exactly "healthy" or "unhealthy".
C5_HealthCheckAlwaysAnswers ==
  LastTool("healthCheck") =>
    /\ ~last.raised
    /\ last.mode \in Modes
    /\ ResponseText.status \in {"healthy", "unhealthy"}
    /\ (ResponseText.status = "healthy") = (last.call.status = "ok")

C5_Witness ==
  /\ LastTool("healthCheck")
  /\ last.mode = "query"
  /\ ~last.raised
  /\ ResponseText.status = "unhealthy"

\* C6 as stated: when the health probe fails, the response carrying status
\* "unhealthy" does not have the error flag set.
C6_UnhealthyFlagCleared ==
  (LastTool("healthCheck") /\ last.call.status # "ok") =>
    /\ ~last.raised
    /\ ResponseText.status = "unhealthy"
    /\ last.response.isError = FALSE

\* C6 amended: when the health probe fails, healthCheck still returns its
\* record in a normal response (the handler does not raise), and that
\* response, carrying status "unhealthy", has the error flag set.
C6_UnhealthyFlagSet ==
  (LastTool("healthCheck") /\ last.call.status # "ok") =>
    /\ ~last.raised
    /\ ResponseText.status = "unhealthy"
    /\ last.response.isError = TRUE

C6_Witness ==
  /\ LastTool("healthCheck")
  /\ last.call.status = "drainFail"
  /\ ResponseText.status = "unhealthy"
  /\ ResponseText.error = <<"Runtime exception">>
  /\ last.response.isError = TRUE

(***************************************************************************)
(* Properties of schema reflection.                                        *)
(***************************************************************************)
\* the last request was a getSchema that returned a schema
LastSchema == LastTool("getSchema") /\ ~last.raised /\ last.response.isError = FALSE

\* the table names in ascending collation order
CollationOrder == <<"a", "ab", "Ab", "B", "c">>

Rank(n) == CHOOSE i \in DOMAIN CollationOrder : CollationOrder[i] = n

Ascending(tables) ==
  \A i, j \in DOMAIN tables :
    i < j => Rank(tables[i].name) < Rank(tables[j].name)

Range(seq) == { seq[i] : i \in DOMAIN seq }

\* the listing orders of the same set of tables
Reorderings(cat) ==
  { c \in [DOMAIN cat -> Range(cat)] : Range(c) = Range(cat) }

\* C7: for every catalog and every order in which the engine lists its
\* tables, both lists of the reflection are sorted by table name ascending,
\* and catalogs that differ only in listing order give the same output.
C7_ReflectionSorted ==
  LastSchema =>
    /\ Ascending(ResponseText.nodeTables)
    /\ Ascending(ResponseText.relTables)
    /\ \A c \in Reorderings(last.before) :
         StringifySchema(getSchema(conn, c, last.fault).value) = ResponseText

C7_Witness ==
  /\ LastSchema
  /\ last.before = <<"B", "a">>
  /\ Len(ResponseText.nodeTables) = 2
  /\ ResponseText.nodeTables[1].name = "a"
  /\ ResponseText.nodeTables[2].name = "B"

\* C8: each entity-table property carries the primary-key flag with the
\* value the engine catalog reports for it, and no property of a
\* relationship table carries a primary-key flag.
C8_PrimaryKeyFlag ==
  LastSchema =>
    /\ \A i \in DOMAIN ResponseText.nodeTables :
         LET tb == ResponseText.nodeTables[i]
             rows == TableInfoRows(tb.name)
         IN /\ Len(tb.properties) = Len(rows)
            /\ \A k \in DOMAIN rows :
                 /\ tb.properties[k].name = rows[k]["name"]
                 /\ "isPrimaryKey" \in DOMAIN tb.properties[k]
                 /\ tb.properties[k].isPrimaryKey = rows[k]["primary key"]
    /\ \A i \in DOMAIN ResponseText.relTables :
         LET tb == ResponseText.relTables[i]
         IN /\ Len(tb.properties) = Len(TableInfoRows(tb.name))
            /\ \A k \in DOMAIN tb.properties :
                 "isPrimaryKey" \notin DOMAIN tb.properties[k]

C8_Witness ==
  /\ LastSchema
  /\ Len(ResponseText.nodeTables) = 1
  /\ ResponseText.nodeTables[1].name = "a"
  /\ ResponseText.nodeTables[1].properties[1].isPrimaryKey = TRUE
  /\ ResponseText.nodeTables[1].properties[2].isPrimaryKey = FALSE
  /\ Len(ResponseText.relTables) = 1
  /\ ResponseText.relTables[1].name = "ab"
  /\ "primary key" \in DOMAIN TableInfoRows("ab")[1]

\* the tables of the catalog for which a metadata fetch fails
FailedTables(cat, fault) ==
  { n \in Range(cat) :
      \/ fault[InfoSite(n)] # "ok"
      \/ TableType(n) = "REL" /\ fault[ConnSite(n)] # "ok" }

Without(tables, names) == SelectSeq(tables, LAMBDA tb : tb.name \notin names)

\* C9: if fetching the properties or the connectivity of a table fails,
\* that table is in neither output list, every other table is reflected
\* exactly as without the failure, and the reflection call succeeds.
C9_FailedTableSkipped ==
  (LastTool("getSchema") /\ last.fault[ListSite] = "ok") =>
    /\ LastSchema
    /\ LET failed == FailedTables(last.before, last.fault)
           whole == StringifySchema(
                      getSchema(conn, last.before, NoFault(last.before)).value)
       IN /\ ResponseText.nodeTables = Without(whole.nodeTables, failed)
          /\ ResponseText.relTables = Without(whole.relTables, failed)

C9_Witness ==
  /\ LastSchema
  /\ Range(last.before) = {"a", "ab"}
  /\ last.fault[ConnSite("ab")] = "drain"
  /\ ResponseText.relTables = <<>>
  /\ Len(ResponseText.nodeTables) = 1
  /\ ResponseText.nodeTables[1].name = "a"

(***************************************************************************)
(* Properties of the graphQuery payload.                                   *)
(***************************************************************************)
DigitValue(ch) == CHOOSE d \in 0..9 : Digit(d) = ch

RECURSIVE DigitsValue(_)
DigitsValue(ds) ==
  IF ds = <<>> THEN 0
  ELSE 10 * DigitsValue(SubSeq(ds, 1, Len(ds) - 1)) + DigitValue(ds[Len(ds)])

\* a decimal numeral: an optional "-", digits, no leading zero
IsDecimal(str) ==
  LET ds == IF str # <<>> /\ str[1] = "-" THEN Tail(str) ELSE str
  IN /\ ds # <<>>
     /\ \A i \in DOMAIN ds : ds[i] \in Range(DigitChars)
     /\ (Len(ds) > 1 => ds[1] # "0")
     /\ (str[1] = "-" => ds # <<"0">>)

\* the integer a decimal numeral denotes, as sign and base-1000 limbs
ParseDecimal(str) ==
  LET neg == str[1] = "-"
      ds == IF neg THEN Tail(str) ELSE str
      n == (Len(ds) + 2) \div 3
      first == Len(ds) - 3 * (n - 1)
  IN [neg |-> neg,
      limbs |-> [k \in 1..n |->
                   IF k = 1 THEN DigitsValue(SubSeq(ds, 1, first))
                   ELSE DigitsValue(SubSeq(ds, first + 3 * (k - 2) + 1,
                                           first + 3 * (k - 1)))]]

\* C10: every 64-bit integer scalar of a row the engine returned appears
\* in the graphQuery payload as its decimal string, no unconverted 64-bit
\* integer reaches the payload, and every other scalar is unchanged.
C10_BigIntAsDecimalString ==
  (LastTool("graphQuery") /\ last.call.status = "ok") =>
    /\ ~last.raised
    /\ last.response.isError = FALSE
    /\ DOMAIN ResponseText = DOMAIN last.call.rows
    /\ \A i \in DOMAIN last.call.rows :
         /\ DOMAIN ResponseText[i] = DOMAIN last.call.rows[i]
         /\ \A k \in DOMAIN last.call.rows[i] :
              LET v == last.call.rows[i][k]
                  out == ResponseText[i][k]
              IN /\ out.t # "bigint"
                 /\ IF v.t = "bigint"
                    THEN /\ out.t = "string"
                         /\ IsDecimal(out.str)
                         /\ ParseDecimal(out.str) = [neg |-> v.neg, limbs |-> v.limbs]
                    ELSE out = v

C10_Witness ==
  /\ LastTool("graphQuery")
  /\ last.call.status = "ok"
  /\ last.call.rows = <<Row3, Row4>>
  /\ last.response.isError = FALSE
  /\ ResponseText[1].id.str =
       <<"-", "9", "2", "2", "3", "3", "7", "2", "0", "3", "6",
         "8", "5", "4", "7", "7", "5", "8", "0", "8">>
  /\ ResponseText[2].id.str =
       <<"9", "2", "2", "3", "3", "7", "2", "0", "3", "6",
         "8", "5", "4", "7", "7", "5", "8", "0", "7">>
  /\ ResponseText[1].age.str = <<"-", "1", "0", "2", "0">>
  /\ ResponseText[2].age = Num(-5)

(***************************************************************************)
(* Properties of the failure a rejected statement produces.                *)
(***************************************************************************)
\* part occurs in text as a run of consecutive pieces
Contains(text, part) ==
  \E i \in 0..(Len(text) - Len(part)) : SubSeq(text, i + 1, i + Len(part)) = part

\* C11 as stated: when the engine rejects a statement submitted by
\* graphQuery, the failure returned to the caller carries both the engine's
\* original error message and the offending statement.
C11_FailureCarriesStatement ==
  (LastTool("graphQuery") /\ last.call.status = "queryFail") =>
    /\ ~last.raised
    /\ last.response.isError = TRUE
    /\ Contains(ResponseText, last.call.message)
    /\ Contains(ResponseText, last.submitted[1])

\* C11 amended: when the engine rejects a statement submitted by
\* graphQuery, the failure returned to the caller is a normal response with
\* isError=true whose text is "Error: Database query failed: " followed by
\* the engine's original message and nothing else: the handler does not
\* add the offending statement to the response.
C11_FailureCarriesEngineMessage ==
  (LastTool("graphQuery") /\ last.call.status = "queryFail") =>
    /\ ~last.raised
    /\ last.response.isError = TRUE
    /\ ResponseText = <<"Error: ", "Database query failed: ">> \o last.call.message

C11_Witness ==
  /\ LastTool("graphQuery")
  /\ isReadOnly
  /\ last.submitted = << <<"CREATE", "a">> >>
  /\ last.call.status = "queryFail"
  /\ ResponseText = <<"Error: ", "Database query failed: ",
                      "Cannot execute write operations in a read-only database!">>
  /\ ~Contains(ResponseText, last.submitted[1])

(***************************************************************************)
(* Properties of the GetPrompt handler.                                    *)
(***************************************************************************)
LastPrompt(name) == last.kind = "prompt" /\ last.name = name

PromptNames == { ListPrompts[i].name : i \in DOMAIN ListPrompts }

\* the last request was answered with a messages payload
Rendered == ~last.raised /\ "messages" \in DOMAIN last.response

\* the question argument of the last request is missing, empty or whitespace
QuestionBlank ==
  LET arguments == Get(last.request.params).arguments
  IN \/ ~IsSome(arguments)
     \/ ~IsSome(Get(arguments).question)
     \/ /\ Get(Get(arguments).question).t = "string"
        /\ \A i \in DOMAIN Get(Get(arguments).question).str :
             Get(Get(arguments).question).str[i] \in Whitespace

\* C12: rendering the template with the question missing, empty or only
\* whitespace makes the handler raise (a transport-level error, no messages
\* payload), and no engine call is made for that request.
C12_BlankQuestionRaises ==
  (LastPrompt("generateKuzuCypher") /\ QuestionBlank) =>
    /\ last.raised
    /\ ~Rendered
    /\ "error" \in DOMAIN last.response
    /\ last.submitted = <<>>
    /\ last.opened = 0

C12_Witness ==
  /\ LastPrompt("generateKuzuCypher")
  /\ IsSome(Get(last.request.params).arguments)
  /\ Get(Get(last.request.params).arguments).question = Some(Str(<<"\n", " ">>))
  /\ last.raised
  /\ last.response.error.message = <<"Question cannot be empty">>
  /\ last.submitted = <<>>

\* C13: rendering a prompt whose name is missing or is not the one defined
\* template makes the handler raise (a transport-level error) and never
\* returns a messages payload.
C13_UnknownPromptRaises ==
  (last.kind = "prompt" /\ last.name \notin PromptNames) =>
    /\ last.raised
    /\ ~Rendered
    /\ last.response.error.message =
         (IF last.name = ""
          THEN <<"Invalid request: missing prompt name">>
          ELSE <<"Unknown prompt: ", last.name>>)

C13_Witness ==
  /\ LastPrompt("doesNotExist")
  /\ last.raised
  /\ last.response.error.message = <<"Unknown prompt: ", "doesNotExist">>

\* the payload of a getSchema call on this catalog with the engine behaving
\* this way
SchemaPayload(cat, fault, ro) ==
  CallToolHandler([params |-> Some([name |-> Some("getSchema"), arguments |-> None])],
                  [DefaultEnv(cat) EXCEPT !.fault = fault], cat, ro)
    .response.content[1].text

\* C15: for every catalog and every non-empty question, the schema embedded
\* in the rendered prompt is identical (same tables, same properties, same
\* order) to the payload of a getSchema call against the same catalog state.
C15_PromptSchemaIsGetSchema ==
  (LastPrompt("generateKuzuCypher") /\ Rendered) =>
    /\ last.response.messages[1].content.text.schema =
         SchemaPayload(last.before, last.fault, isReadOnly)
    /\ last.response.messages[1].content.text.question = QuestionOf(last.request)

C15_Witness ==
  /\ LastPrompt("generateKuzuCypher")
  /\ Rendered
  /\ last.before = <<"ab", "a">>
  /\ last.fault = NoFault(last.before)
  /\ last.response.messages[1].content.text.question = <<"who knows whom">>
  /\ Len(last.response.messages[1].content.text.schema.nodeTables) = 1
  /\ last.response.messages[1].content.text.schema.nodeTables[1].name = "a"
  /\ Len(last.response.messages[1].content.text.schema.relTables) = 1

(***************************************************************************)
(* Properties of argument validation.                                      *)
(***************************************************************************)
\* the argument called field is missing from the request, or is a string
\* that is empty after trimming
ArgumentBlank(request, field) ==
  LET arguments == Get(request.params).arguments
  IN \/ ~IsSome(arguments)
     \/ field \notin DOMAIN Get(arguments)
     \/ ~IsSome(Get(arguments)[field])
     \/ /\ Get(Get(arguments)[field]).t = "string"
        /\ \A i \in DOMAIN Get(Get(arguments)[field]).str :
             Get(Get(arguments)[field]).str[i] \in Whitespace

\* C14 as stated: for every advertised operation and every argument its
\* catalog entry declares as required, an invocation with that argument
\* missing (or empty after trimming) yields an argument error and not a
\* success response; this includes the generateKuzuCypher tool.
C14_RequiredArgumentsValidated ==
  \A i \in DOMAIN ListTools :
    \A k \in DOMAIN ListTools[i].required :
      (LastTool(ListTools[i].name)
         /\ ArgumentBlank(last.request, ListTools[i].required[k])) =>
        /\ ~last.raised
        /\ last.response.isError = TRUE

(***************************************************************************)
(* Properties of the process: connections and read-only mode.              *)
(***************************************************************************)
\* C17 as stated: throughout the life of the server process exactly one
\* connection to the database path is ever open, the handle created at
\* startup; no code run by the server opens a second database or connection
\* on the same path.
C17_SingleConnection ==
  /\ \A i, j \in DOMAIN handles :
       handles[i].path = handles[j].path => i = j
  /\ phase # "boot" => handles = <<ServerHandle(isReadOnly)>>

\* C19: when read-only mode is enabled (KUZU_READ_ONLY is "true", which is
\* what the launcher's --read-only flag sets), the database is opened
\* read-only, the seeding step is not run, and no step of the server, for
\* any request, changes the stored tables.
C19_ReadOnlyNeverModifies ==
  [][ /\ \A e \in ProcessEnvs :
           IsReadOnlyEnv(startServer([readOnly |-> TRUE], e))
      /\ isReadOnly =>
           /\ catalog' = catalog
           /\ seeding' = NotSeeding
           /\ \A i \in DOMAIN handles' : handles'[i].readOnly ]_vars

C19_Witness ==
  /\ isReadOnly
  /\ phase = "serving"
  /\ catalog = <<>>
  /\ seeding = NotSeeding
  /\ handles = <<ServerHandle(TRUE)>>
  /\ LastTool("graphQuery")
  /\ last.submitted = << <<"CREATE", "a">> >>
  /\ last.response.isError = TRUE
  /\ last.after = <<>>

(***************************************************************************)
(* Properties of failed requests and of the health record.                 *)
(***************************************************************************)
\* the request recorded in l ended in a failure
Failed(l) ==
  /\ l.kind \in {"tool", "prompt"}
  /\ \/ l.raised
     \/ "isError" \in DOMAIN l.response /\ l.response.isError = TRUE

\* C18 as stated: after any request that fails the server remains running
\* and answers every subsequent valid request exactly as if the failed
\* request had never been sent: the failed request leaves the process and
\* the database as they were.
C18_FailedRequestLeavesNoTrace ==
  [][ (last' # last /\ Failed(last')) =>
        /\ running'
        /\ phase' = phase
        /\ isReadOnly' = isReadOnly
        /\ catalog' = catalog ]_vars

\* C18 amended: after any request that fails the server remains running
\* and keeps nothing from the failed request; the database, from which
\* every later request is answered, is as it was before the failed request
\* unless the engine had already executed the request's statement when the
\* failure occurred (a failure while draining the result).
C18_FailedRequestKeepsServerState ==
  [][ (last' # last /\ Failed(last')) =>
        /\ running'
        /\ phase' = phase
        /\ isReadOnly' = isReadOnly
        /\ handles' = handles
        /\ (last'.call.status # "drainFail" => catalog' = catalog) ]_vars

C18_Witness ==
  /\ running
  /\ phase = "serving"
  /\ LastPrompt("doesNotExist")
  /\ Failed(last)
  /\ last.before = <<"a", "ab">>
  /\ catalog = last.before

\* C20: whenever the health probe succeeds, healthCheck reports status
\* "healthy" with tablesCount equal to the number of tables in the engine
\* catalog at the time of the probe; against an empty database it reports
\* tablesCount 0 and status "healthy".
C20_HealthyCountsTables ==
  (LastTool("healthCheck") /\ last.call.status = "ok") =>
    /\ ~last.raised
    /\ last.response.isError = FALSE
    /\ ResponseText.status = "healthy"
    /\ ResponseText.tablesCount = Len(last.before)
    /\ ResponseText.tablesCount = Cardinality(Range(last.before))

C20_Witness ==
  /\ LastTool("healthCheck")
  /\ last.call.status = "ok"
  /\ last.before = <<>>
  /\ ResponseText.status = "healthy"
  /\ ResponseText.tablesCount = 0

(***************************************************************************)
(* Properties of request ordering.                                         *)
(***************************************************************************)
\* the handlers that have an engine call in flight
CallsInFlight == { i \in DOMAIN pending : pending[i].returned < pending[i].calls }

\* C16 as stated: requests are processed strictly one at a time in arrival
\* order: no handler starts, and no second engine call is issued on the
\* shared connection, before the previous request's engine call has
\* returned, and responses are emitted in the order the requests arrived.
C16_OneAtATime ==
  /\ Len(pending) <= 1
  /\ Cardinality(CallsInFlight) <= 1
  /\ \A i, j \in DOMAIN emitted : i < j => emitted[i] < emitted[j]

(***************************************************************************)
(* The health status record                                                *)
(***************************************************************************)

\* the fields of the record the last healthCheck answered with
HealthFields == DOMAIN ResponseText

\* C21 as stated: every health status record, healthy or unhealthy,
\* contains status, database path, read-only flag, table count, timestamp
\* and version, and contains an error message exactly when its status is
\* "unhealthy".
C21_EveryRecordHasTableCount ==
  LastTool("healthCheck") =>
    /\ {"status", "dbPath", "readOnly", "tablesCount", "timestamp", "version"}
         \subseteq HealthFields
    /\ ("error" \in HealthFields) <=> (ResponseText.status = "unhealthy")

\* C21 amended: every health status record, healthy or unhealthy, contains
\* status, database path, read-only flag, timestamp and version; it
\* contains the table count exactly when its status is "healthy" and an
\* error message exactly when its status is "unhealthy".
C21_RecordFields ==
  LastTool("healthCheck") =>
    /\ {"status", "dbPath", "readOnly", "timestamp", "version"}
         \subseteq HealthFields
    /\ ResponseText.status \in {"healthy", "unhealthy"}
    /\ ("tablesCount" \in HealthFields) <=> (ResponseText.status = "healthy")
    /\ ("error" \in HealthFields) <=> (ResponseText.status = "unhealthy")

C21_Witness ==
  /\ LastTool("healthCheck")
  /\ last.call.status = "queryFail"
  /\ HealthFields =
       {"status", "dbPath", "readOnly", "error", "timestamp", "version"}
  /\ ResponseText.status = "unhealthy"

(***************************************************************************)
(* The rows graphQuery answers with                                        *)
(***************************************************************************)

\* an answered row is the engine's row: the same columns, every value the
\* engine's value, a BigInt being rendered as a string
SameRow(out, row) ==
  /\ DOMAIN out = DOMAIN row
  /\ \A k \in DOMAIN row :
       IF row[k].t = "bigint" THEN out[k].t = "string" ELSE out[k] = row[k]

\* C22: whenever the engine executes the submitted statement without error,
\* graphQuery answers with isError = false and a payload that has one row
\* for each row the engine produced, the i-th answered row being the
\* engine's i-th row; with zero rows the payload is the empty sequence.
C22_SuccessReturnsEngineRows ==
  (LastTool("graphQuery") /\ last.call.status = "ok") =>
    /\ ~last.raised
    /\ last.response.isError = FALSE
    /\ Len(ResponseText) = Len(last.call.rows)
    /\ \A i \in 1..Len(last.call.rows) :
         SameRow(ResponseText[i], last.call.rows[i])
    /\ (last.call.rows = <<>>) => (ResponseText = <<>>)

C22_Witness ==
  /\ LastTool("graphQuery")
  /\ last.call.status = "ok"
  /\ last.call.rows = <<Row2, Row1>>
  /\ last.response.isError = FALSE
  /\ Len(ResponseText) = 2
  /\ ResponseText[1].name = Null
  /\ ResponseText[2].name = Str(<<"A", "l">>)

\* the scenario of an empty result
C22_WitnessEmpty ==
  /\ LastTool("graphQuery")
  /\ last.call.status = "ok"
  /\ last.before = <<>>
  /\ last.call.rows = <<>>
  /\ ResponseText = <<>>

(***************************************************************************)
(* Reflection answers from the catalog as it is                            *)
(***************************************************************************)

\* the tables of this type the catalog holds
TablesOfType(cat, type) == { n \in Range(cat) : TableType(n) = type }

\* the names a list of descriptors carries
NamesIn(tables) == { tables[i].name : i \in DOMAIN tables }

\* the answered request reflected the catalog with no engine call failing
ReflectedNow == IsSome(SchemaAnswered(last)) /\ last.fault = NoFault(last.before)

\* C23: a getSchema call or a prompt render answers with the catalog as it
\* is when that request is handled, whatever an earlier reflection answered
\* with: its NODE and REL tables, each exactly once, also when a graphQuery
\* created or dropped a table in between.
C23_ReflectionNeverCached ==
  ReflectedNow =>
    LET schema == Get(SchemaAnswered(last))
    IN /\ NamesIn(schema.nodeTables) = TablesOfType(last.before, "NODE")
       /\ NamesIn(schema.relTables) = TablesOfType(last.before, "REL")
       /\ Len(schema.nodeTables) = Cardinality(TablesOfType(last.before, "NODE"))
       /\ Len(schema.relTables) = Cardinality(TablesOfType(last.before, "REL"))

\* a table was created between two getSchema calls
C23_Witness ==
  /\ LastTool("getSchema")
  /\ ReflectedNow
  /\ IsSome(reflected)
  /\ NamesIn(Get(reflected).nodeTables) = {"a"}
  /\ NamesIn(Get(reflected).relTables) = {}
  /\ last.before = <<"ab", "a">>
  /\ NamesIn(ResponseText.relTables) = {"ab"}

\* a table was dropped between two prompt renders
C23_WitnessPrompt ==
  /\ LastPrompt("generateKuzuCypher")
  /\ ReflectedNow
  /\ IsSome(reflected)
  /\ NamesIn(Get(reflected).nodeTables) = {"a", "B"}
  /\ last.before = <<"B">>
  /\ NamesIn(Get(SchemaAnswered(last)).nodeTables) = {"B"}

(***************************************************************************)
(* A reflection whose table listing fails                                  *)
(***************************************************************************)

\* the message of the failure of an engine call that fails this way
FailureMessage(mode) ==
  IF mode = "query" THEN <<"Connection exception">> ELSE <<"Runtime exception">>

\* C24: if listing the engine's tables fails (on query or on drain), the
\* getSchema operation does not raise: it answers with a normal response
\* whose isError is true and whose text is the failure message, and so
\* with no schema, whatever tables the catalog holds.
C24_ListFailureIsOperationFailure ==
  (LastTool("getSchema") /\ last.fault[ListSite] # "ok") =>
    /\ ~last.raised
    /\ last.response.isError = TRUE
    /\ ResponseText = <<"Error: ">> \o FailureMessage(last.fault[ListSite])

C24_Witness ==
  /\ LastTool("getSchema")
  /\ last.before = <<"a", "ab">>
  /\ last.fault[ListSite] = "drain"
  /\ ~last.raised
  /\ last.response.isError = TRUE
  /\ ResponseText = <<"Error: ", "Runtime exception">>

(***************************************************************************)
(* Seeding and the serving of requests                                     *)
(***************************************************************************)

StartFailed == phase = "boot" /\ exit = "startup"

\* C26: if the database directory cannot be created or the database and
\* its connection cannot be constructed at startup, the process has ended
\* with a failure code and has served no request; and whenever a handler
\* has run, the connection handle created at startup exists.
C26_StartupFailureIsFatal ==
  /\ StartFailed =>
       /\ ~running
       /\ ExitCode(exit) = 1
       /\ last = Idle
       /\ handles = <<>>
  /\ last # Idle =>
       /\ phase = "serving"
       /\ handles # <<>>
       /\ handles[1] = ServerHandle(isReadOnly)

C26_Witness ==
  /\ StartFailed
  /\ ~running
  /\ handles = <<>>
  /\ last = Idle

\* a request handled after a startup that succeeded
C26_WitnessServed ==
  /\ last # Idle
  /\ handles[1] = ServerHandle(isReadOnly)

(***************************************************************************)
(* How the serving process ends                                            *)
(***************************************************************************)

\* C27 as stated: once startup has succeeded the server process terminates
\* only on SIGINT or SIGTERM; the seeding step finishing, successfully or
\* not, never terminates it.
C27_OnlySignalsTerminate ==
  [][(phase = "serving" /\ running /\ ~running') => exit' = "signal"]_vars

(***************************************************************************)
(* Cursors of the reflection and of the health probe                       *)
(***************************************************************************)

\* C28 as stated: when a getSchema, prompt-render or healthCheck request
\* completes, every cursor it opened (table listing, per-table properties,
\* per-table connectivity, health probe) has been released, also when
\* draining a cursor failed.
C28_ReflectionCursorsReleased ==
  (LastTool("getSchema") \/ LastTool("healthCheck")
     \/ LastPrompt("generateKuzuCypher")) =>
    last.closed = last.opened

(***************************************************************************)
(* The descriptors of a reflection in which no fetch fails                 *)
(***************************************************************************)

\* how many descriptors of the list carry this name
Descriptors(tables, n) == Cardinality({ i \in DOMAIN tables : tables[i].name = n })

\* the (source, destination) pairs the engine reports for a relationship
\* table, in the engine's order
EnginePairs(n) ==
  [j \in DOMAIN ShowConnectionRows(n) |->
     [src |-> ShowConnectionRows(n)[j]["source table name"],
      dst |-> ShowConnectionRows(n)[j]["destination table name"]]]

\* C29: when no metadata fetch fails, the reflection result has exactly one
\* descriptor in the entity list for each NODE table of the catalog and
\* exactly one in the relationship list for each REL table, a relationship
\* descriptor carrying exactly the pairs the engine reports for it; a table
\* of any other kind is in neither list, no descriptor names anything else,
\* and an empty catalog gives two empty lists.
C29_OneDescriptorPerTable ==
  ReflectedNow =>
    LET schema == Get(SchemaAnswered(last))
    IN /\ \A n \in Range(last.before) :
            /\ Descriptors(schema.nodeTables, n) =
                 (IF TableType(n) = "NODE" THEN 1 ELSE 0)
            /\ Descriptors(schema.relTables, n) =
                 (IF TableType(n) = "REL" THEN 1 ELSE 0)
       /\ \A i \in DOMAIN schema.nodeTables :
            schema.nodeTables[i].name \in Range(last.before)
       /\ \A i \in DOMAIN schema.relTables :
            /\ schema.relTables[i].name \in Range(last.before)
            /\ schema.relTables[i].connectivity =
                 EnginePairs(schema.relTables[i].name)
       /\ (last.before = <<>>) =>
            (DOMAIN schema.nodeTables = {} /\ DOMAIN schema.relTables = {})

\* one entity table, one relationship table with two pairs
C29_Witness ==
  /\ LastTool("getSchema")
  /\ ReflectedNow
  /\ last.before = <<"ab", "a">>
  /\ Len(ResponseText.nodeTables) = 1
  /\ Len(ResponseText.relTables) = 1
  /\ ResponseText.relTables[1].connectivity =
       << [src |-> "a", dst |-> "B"], [src |-> "a", dst |-> "a"] >>

\* a table that is neither NODE nor REL
C29_WitnessOtherKind ==
  /\ LastTool("getSchema")
  /\ ReflectedNow
  /\ last.before = <<"c", "B">>
  /\ NamesIn(ResponseText.nodeTables) = {"B"}
  /\ DOMAIN ResponseText.relTables = {}

\* the empty catalog
C29_WitnessEmpty ==
  /\ LastTool("getSchema")
  /\ ReflectedNow
  /\ last.before = <<>>
  /\ DOMAIN ResponseText.nodeTables = {}
  /\ DOMAIN ResponseText.relTables = {}

(***************************************************************************)
(* The advertised names and the names the handlers dispatch on             *)
(***************************************************************************)

\* the last request was answered with the unknown-tool error
UnknownToolError ==
  /\ ~last.raised
  /\ last.response.isError = TRUE
  /\ last.submitted = <<>>
  /\ ResponseText = <<"Error: ", "Unknown tool: ", last.name>>

\* the last request was answered with the unknown-prompt error
UnknownPromptError ==
  /\ last.raised
  /\ last.response.error.message = <<"Unknown prompt: ", last.name>>

C30_WitnessAdvertised ==
  /\ LastTool("generateKuzuCypher")
  /\ ~UnknownToolError

C30_WitnessUnknown ==
  /\ LastTool("doesNotExist")
  /\ UnknownToolError
====
